---- MODULE Spec2Model ----
(***************************************************************************)
(* Model of package async (src/async.go): the lifecycle of one Job.        *)
(*                                                                         *)
(* Processes:                                                              *)
(*   - the host goroutine, which either calls Job.Execute (mode            *)
(*     "Execute") or calls Job.RunWithClose itself and then uses the three *)
(*     returned channels (mode "RunWithClose", as Test_RunWithClose does); *)
(*   - the supervising goroutine spawned by RunWithClose (lines 95-106);   *)
(*   - the run goroutine spawned by the supervising goroutine (96-100);    *)
(*   - goroutines calling Job.SignalToClose (lines 156-158);               *)
(*   - the operating system delivering signals to the process.             *)
(*                                                                         *)
(* Go channels are sequences bounded by their capacity: a send is enabled  *)
(* only while the buffer has room (otherwise the sender stays blocked at   *)
(* its program counter), a receive only while the buffer is non-empty.     *)
(***************************************************************************)
EXTENDS Naturals, Sequences, FiniteSets

\* ---- bounds of the model (not program constants) ----
MaxSignals == 2     \* OS signals sent to the process in one run
MaxManual == 2      \* goroutines that call Job.SignalToClose

\* ---- program constants ----
Cap == 1            \* capacity of sig, ack, err and closeChan

NIL == "nil"
ErrConfig == "either Run or Close fields missing"
RunErr == "run error"
CloseErr == "close error"

SIGINT == "SIGINT"
SIGTERM == "SIGTERM"
SIGHUP == "SIGHUP"
OSSignals == {SIGINT, SIGTERM, SIGHUP}
DefaultSignals == {SIGINT, SIGTERM}

\* What the caller-supplied functions do when called.
\*   "unset": the field is nil;  "nil": returns nil;  "fail": returns an error;
\*   "block": never returns.
RunKinds == {"unset", "nil", "fail", "block"}
CloseKinds == {"unset", "nil", "fail", "block"}
SignalChoices == {{}, {SIGINT}, {SIGHUP}}
Modes == {"Execute", "RunWithClose"}
Manuals == 1..MaxManual

VARIABLES
    mode,        \* entry point the host goroutine uses
    j,           \* the Job: Run, Close, Signals, and the recorded handle sig
    j0,          \* the Job as constructed (history)
    sig,         \* buffer of the sig channel
    ack,         \* buffer of the ack channel
    err,         \* buffer of the err channel
    closeChan,   \* buffer of Execute's closeChan
    notified,    \* signals registered with signal.Notify
    execPc,      \* position of the host goroutine
    execRet,     \* value returned by Execute ("none" while it has not returned)
    supPc,       \* position of the supervising goroutine
    runPc,       \* position of the run goroutine
    manPc,       \* position of each SignalToClose caller
    alive,       \* FALSE once the process has died (panic or default signal action)
    osCount,     \* number of OS signals sent to the process (history)
    osSent,      \* the signals sent to the process so far (history)
    closeCount,  \* number of invocations of j.Close (history)
    closeRet,    \* value j.Close returned ("none" while it has not returned)
    runRet,      \* value j.Run returned ("none" while it has not returned)
    ackCount,    \* number of sends on ack (history)
    sigWrites,   \* number of completed sends on sig (history)
    errWrites    \* number of completed sends on err, per sender (history)

vars == <<mode, j, j0, sig, ack, err, closeChan, notified, execPc, execRet,
          supPc, runPc, manPc, alive, osCount, osSent, closeCount, closeRet,
          runRet, ackCount, sigWrites, errWrites>>

chans == <<sig, ack, err, closeChan>>
hist == <<osCount, osSent, closeCount, closeRet, runRet, ackCount, sigWrites, errWrites>>

Full(ch) == Len(ch) >= Cap

Init ==
    /\ mode \in Modes
    /\ j \in [Run : RunKinds, Close : CloseKinds, Signals : SignalChoices, sig : {"nil"}]
    /\ j0 = j
    /\ sig = << >>
    /\ ack = << >>
    /\ err = << >>
    /\ closeChan = << >>
    /\ notified = {}
    /\ execPc = "start"
    /\ execRet = "none"
    /\ supPc = "none"
    /\ runPc = "none"
    /\ manPc = [p \in Manuals |-> "idle"]
    /\ alive = TRUE
    /\ osCount = 0
    /\ osSent = {}
    /\ closeCount = 0
    /\ closeRet = "none"
    /\ runRet = "none"
    /\ ackCount = 0
    /\ sigWrites = 0
    /\ errWrites = [run |-> 0, sup |-> 0]

\* ------------------------------------------------------------------------
\* RunWithClose (lines 86-108): make the three channels, record them on the
\* Job, start the supervising goroutine, return at once.
RunWithClose ==
    /\ sig' = << >>
    /\ ack' = << >>
    /\ err' = << >>
    /\ j' = [j EXCEPT !.sig = "chan"]
    /\ supPc' = "spawn"

\* ---- the supervising goroutine (lines 95-106) ----

\* SupSpawnRun that goes on to wait without starting the run goroutine.
SupSpawnRun_NoSpawn ==
    /\ alive /\ supPc = "spawn"
    /\ supPc' = "recvSig"
    /\ UNCHANGED <<mode, j, j0, chans, notified, execPc, execRet, runPc, manPc,
                   alive, hist>>

\* line 96: go func() { ... j.Run() ... }()
SupSpawnRun ==
    /\ alive /\ supPc = "spawn"
    /\ runPc' = "spawned"
    /\ supPc' = "recvSig"
    /\ UNCHANGED <<mode, j, j0, chans, notified, execPc, execRet, manPc, alive, hist>>

\* SupRecvSig with a receive that does not wait for a signal-request.
SupRecvSig_NoWait ==
    /\ alive /\ supPc = "recvSig"
    /\ sig' = IF Len(sig) > 0 THEN Tail(sig) ELSE sig
    /\ supPc' = "callClose"
    /\ UNCHANGED <<mode, j, j0, ack, err, closeChan, notified, execPc, execRet,
                   runPc, manPc, alive, hist>>

\* line 101: <-sig
SupRecvSig ==
    /\ alive /\ supPc = "recvSig"
    /\ Len(sig) > 0
    /\ sig' = Tail(sig)
    /\ supPc' = "callClose"
    /\ UNCHANGED <<mode, j, j0, ack, err, closeChan, notified, execPc, execRet,
                   runPc, manPc, alive, hist>>

\* SupCallClose that starts j.Close without waiting for it to return.
SupCallClose_NoWait ==
    /\ alive /\ supPc = "callClose"
    /\ IF j.Close = "unset"
          THEN /\ alive' = FALSE
               /\ UNCHANGED <<supPc, closeCount>>
          ELSE /\ supPc' = "sendAck"
               /\ closeCount' = closeCount + 1
               /\ UNCHANGED alive
    /\ UNCHANGED <<mode, j, j0, chans, notified, execPc, execRet, runPc, manPc,
                   osCount, osSent, closeRet, runRet, ackCount, sigWrites, errWrites>>

\* line 102: j.Close() is called; calling a nil func panics.
SupCallClose ==
    /\ alive /\ supPc = "callClose"
    /\ IF j.Close = "unset"
          THEN /\ alive' = FALSE
               /\ UNCHANGED <<supPc, closeCount>>
          ELSE /\ supPc' = "inClose"
               /\ closeCount' = closeCount + 1
               /\ UNCHANGED alive
    /\ UNCHANGED <<mode, j, j0, chans, notified, execPc, execRet, runPc, manPc,
                   osCount, osSent, closeRet, runRet, ackCount, sigWrites, errWrites>>

\* SupCloseReturn that forwards the result of j.Close whether or not it is nil.
SupCloseReturn_AlwaysForward ==
    /\ alive /\ supPc = "inClose"
    /\ j.Close \in {"nil", "fail"}
    /\ closeRet' = IF j.Close = "fail" THEN CloseErr ELSE NIL
    /\ supPc' = "sendErr"
    /\ UNCHANGED <<mode, j, j0, chans, notified, execPc, execRet, runPc, manPc,
                   alive, osCount, osSent, closeCount, runRet, ackCount,
                   sigWrites, errWrites>>

\* line 102: j.Close() returns e
SupCloseReturn ==
    /\ alive /\ supPc = "inClose"
    /\ j.Close \in {"nil", "fail"}
    /\ closeRet' = IF j.Close = "fail" THEN CloseErr ELSE NIL
    /\ supPc' = IF j.Close = "fail" THEN "sendErr" ELSE "sendAck"
    /\ UNCHANGED <<mode, j, j0, chans, notified, execPc, execRet, runPc, manPc,
                   alive, osCount, osSent, closeCount, runRet, ackCount, sigWrites, errWrites>>

\* line 103: err <- e   (a plain send: waits while the buffer is full)
SupSendErr ==
    /\ alive /\ supPc = "sendErr"
    /\ ~Full(err)
    /\ err' = Append(err, closeRet)
    /\ errWrites' = [errWrites EXCEPT !.sup = @ + 1]
    /\ supPc' = "sendAck"
    /\ UNCHANGED <<mode, j, j0, sig, ack, closeChan, notified, execPc, execRet,
                   runPc, manPc, alive, osCount, osSent, closeCount, closeRet, runRet,
                   ackCount, sigWrites>>

\* SupSendAck that loops back to wait for another signal-request.
SupSendAck_Loop ==
    /\ alive /\ supPc = "sendAck"
    /\ ~Full(ack)
    /\ ack' = Append(ack, 1)
    /\ ackCount' = ackCount + 1
    /\ supPc' = "recvSig"
    /\ UNCHANGED <<mode, j, j0, sig, err, closeChan, notified, execPc, execRet,
                   runPc, manPc, alive, osCount, osSent, closeCount, closeRet, runRet,
                   sigWrites, errWrites>>

\* line 105: ack <- 1, then the goroutine ends
SupSendAck ==
    /\ alive /\ supPc = "sendAck"
    /\ ~Full(ack)
    /\ ack' = Append(ack, 1)
    /\ ackCount' = ackCount + 1
    /\ supPc' = "done"
    /\ UNCHANGED <<mode, j, j0, sig, err, closeChan, notified, execPc, execRet,
                   runPc, manPc, alive, osCount, osSent, closeCount, closeRet, runRet,
                   sigWrites, errWrites>>

\* ---- the run goroutine (lines 96-100) ----

\* line 97: j.Run() is called; calling a nil func panics.
RunInvoke ==
    /\ alive /\ runPc = "spawned"
    /\ IF j.Run = "unset"
          THEN /\ alive' = FALSE
               /\ UNCHANGED runPc
          ELSE /\ runPc' = "inRun"
               /\ UNCHANGED alive
    /\ UNCHANGED <<mode, j, j0, chans, notified, execPc, execRet, supPc, manPc, hist>>

\* RunReturn that discards the failure (the test e != nil inverted).
RunReturn_DropFailure ==
    /\ alive /\ runPc = "inRun"
    /\ j.Run \in {"nil", "fail"}
    /\ runRet' = IF j.Run = "fail" THEN RunErr ELSE NIL
    /\ runPc' = IF j.Run = "fail" THEN "done" ELSE "sendErr"
    /\ UNCHANGED <<mode, j, j0, chans, notified, execPc, execRet, supPc, manPc,
                   alive, osCount, osSent, closeCount, closeRet, ackCount, sigWrites, errWrites>>

\* line 97: j.Run() returns e
RunReturn ==
    /\ alive /\ runPc = "inRun"
    /\ j.Run \in {"nil", "fail"}
    /\ runRet' = IF j.Run = "fail" THEN RunErr ELSE NIL
    /\ runPc' = IF j.Run = "fail" THEN "sendErr" ELSE "done"
    /\ UNCHANGED <<mode, j, j0, chans, notified, execPc, execRet, supPc, manPc,
                   alive, osCount, osSent, closeCount, closeRet, ackCount, sigWrites, errWrites>>

\* line 98: err <- e   (a plain send: waits while the buffer is full)
RunSendErr ==
    /\ alive /\ runPc = "sendErr"
    /\ ~Full(err)
    /\ err' = Append(err, runRet)
    /\ errWrites' = [errWrites EXCEPT !.run = @ + 1]
    /\ runPc' = "done"
    /\ UNCHANGED <<mode, j, j0, sig, ack, closeChan, notified, execPc, execRet,
                   supPc, manPc, alive, osCount, osSent, closeCount, closeRet, runRet,
                   ackCount, sigWrites>>

\* ---- Execute (lines 114-153) ----

\* ExecCheck that rejects a Job only when both fields are missing.
ExecCheck_BothMissing ==
    /\ alive /\ mode = "Execute" /\ execPc = "start"
    /\ IF j.Run = "unset" /\ j.Close = "unset"
          THEN /\ execPc' = "returned"
               /\ execRet' = ErrConfig
          ELSE /\ execPc' = "runWithClose"
               /\ UNCHANGED execRet
    /\ UNCHANGED <<mode, j, j0, chans, notified, supPc, runPc, manPc, alive, hist>>

\* lines 117-119: the sanity check
ExecCheck ==
    /\ alive /\ mode = "Execute" /\ execPc = "start"
    /\ IF j.Run = "unset" \/ j.Close = "unset"
          THEN /\ execPc' = "returned"
               /\ execRet' = ErrConfig
          ELSE /\ execPc' = "runWithClose"
               /\ UNCHANGED execRet
    /\ UNCHANGED <<mode, j, j0, chans, notified, supPc, runPc, manPc, alive, hist>>

\* line 121: sig, ack, err := j.RunWithClose()
ExecRunWithClose ==
    /\ alive /\ mode = "Execute" /\ execPc = "runWithClose"
    /\ RunWithClose
    /\ execPc' = "notify"
    /\ UNCHANGED <<mode, j0, closeChan, notified, execRet, runPc, manPc, alive, hist>>

\* ExecNotify that calls signal.Notify(closeChan) without the signal list,
\* which registers every signal.
ExecNotify_AllSignals ==
    /\ alive /\ mode = "Execute" /\ execPc = "notify"
    /\ closeChan' = << >>
    /\ j' = [j EXCEPT !.Signals = IF j.Signals = {} THEN DefaultSignals ELSE @]
    /\ notified' = OSSignals
    /\ execPc' = "select"
    /\ UNCHANGED <<mode, j0, sig, ack, err, execRet, supPc, runPc, manPc, alive, hist>>

\* lines 123-130: closeChan, default Signals, signal.Notify
ExecNotify ==
    /\ alive /\ mode = "Execute" /\ execPc = "notify"
    /\ closeChan' = << >>
    /\ j' = [j EXCEPT !.Signals = IF j.Signals = {} THEN DefaultSignals ELSE @]
    /\ notified' = j'.Signals
    /\ execPc' = "select"
    /\ UNCHANGED <<mode, j0, sig, ack, err, execRet, supPc, runPc, manPc, alive, hist>>

\* line 135: case <-closeChan
ExecSelectClose ==
    /\ alive /\ mode = "Execute" /\ execPc = "select"
    /\ Len(closeChan) > 0
    /\ closeChan' = Tail(closeChan)
    /\ execPc' = "sendSig"
    /\ UNCHANGED <<mode, j, j0, sig, ack, err, notified, execRet, supPc, runPc,
                   manPc, alive, hist>>

\* ExecSendSig that leaves the loop after forwarding the request (as the
\* loop of Test_RunWithClose does) and returns nil.
ExecSendSig_Break ==
    /\ alive /\ mode = "Execute" /\ execPc = "sendSig"
    /\ ~Full(sig)
    /\ sig' = Append(sig, 1)
    /\ sigWrites' = sigWrites + 1
    /\ execPc' = "returned"
    /\ execRet' = NIL
    /\ UNCHANGED <<mode, j, j0, ack, err, closeChan, notified, supPc,
                   runPc, manPc, alive, osCount, osSent, closeCount, closeRet,
                   runRet, ackCount, errWrites>>

\* line 136: sig <- 1   (a plain send: waits while the buffer is full)
ExecSendSig ==
    /\ alive /\ mode = "Execute" /\ execPc = "sendSig"
    /\ ~Full(sig)
    /\ sig' = Append(sig, 1)
    /\ sigWrites' = sigWrites + 1
    /\ execPc' = "select"
    /\ UNCHANGED <<mode, j, j0, ack, err, closeChan, notified, execRet, supPc,
                   runPc, manPc, alive, osCount, osSent, closeCount, closeRet, runRet,
                   ackCount, errWrites>>

\* ExecSelectAck that consumes the acknowledgement and keeps looping.
ExecSelectAck_NoBreak ==
    /\ alive /\ mode = "Execute" /\ execPc = "select"
    /\ Len(ack) > 0
    /\ ack' = Tail(ack)
    /\ UNCHANGED <<mode, j, j0, sig, err, closeChan, notified, execPc, execRet,
                   supPc, runPc, manPc, alive, hist>>

\* lines 137-138 and 152: case <-ack: break LOOP; return nil
ExecSelectAck ==
    /\ alive /\ mode = "Execute" /\ execPc = "select"
    /\ Len(ack) > 0
    /\ ack' = Tail(ack)
    /\ execPc' = "returned"
    /\ execRet' = NIL
    /\ UNCHANGED <<mode, j, j0, sig, err, closeChan, notified, supPc, runPc,
                   manPc, alive, hist>>

\* ExecSelectErr that keeps the error and stays in the loop until the
\* acknowledgement arrives.
ExecSelectErr_WaitForAck ==
    /\ alive /\ mode = "Execute" /\ execPc = "select"
    /\ Len(err) > 0
    /\ err' = Tail(err)
    /\ execRet' = Head(err)
    /\ UNCHANGED <<mode, j, j0, sig, ack, closeChan, notified, execPc, supPc,
                   runPc, manPc, alive, hist>>

\* lines 139-140: case e := <-err: return e
ExecSelectErr ==
    /\ alive /\ mode = "Execute" /\ execPc = "select"
    /\ Len(err) > 0
    /\ err' = Tail(err)
    /\ execPc' = "returned"
    /\ execRet' = Head(err)
    /\ UNCHANGED <<mode, j, j0, sig, ack, closeChan, notified, supPc, runPc,
                   manPc, alive, hist>>

\* ---- a host that calls RunWithClose itself (Test_RunWithClose, 195-218) ----

\* line 195: sig, ack, err := job.RunWithClose()
CallerRunWithClose ==
    /\ alive /\ mode = "RunWithClose" /\ execPc = "start"
    /\ RunWithClose
    /\ execPc' = "holding"
    /\ UNCHANGED <<mode, j0, closeChan, notified, execRet, runPc, manPc, alive, hist>>

\* line 210: sig <- 1 on the returned handle
CallerSendSig ==
    /\ alive /\ mode = "RunWithClose" /\ execPc = "holding"
    /\ ~Full(sig)
    /\ sig' = Append(sig, 1)
    /\ sigWrites' = sigWrites + 1
    /\ UNCHANGED <<mode, j, j0, ack, err, closeChan, notified, execPc, execRet,
                   supPc, runPc, manPc, alive, osCount, osSent, closeCount, closeRet,
                   runRet, ackCount, errWrites>>

\* line 212: <-ack on the returned handle
CallerRecvAck ==
    /\ alive /\ mode = "RunWithClose" /\ execPc = "holding"
    /\ Len(ack) > 0
    /\ ack' = Tail(ack)
    /\ UNCHANGED <<mode, j, j0, sig, err, closeChan, notified, execPc, execRet,
                   supPc, runPc, manPc, alive, hist>>

\* line 214: <-err on the returned handle
CallerRecvErr ==
    /\ alive /\ mode = "RunWithClose" /\ execPc = "holding"
    /\ Len(err) > 0
    /\ err' = Tail(err)
    /\ UNCHANGED <<mode, j, j0, sig, ack, closeChan, notified, execPc, execRet,
                   supPc, runPc, manPc, alive, hist>>

\* ---- SignalToClose (lines 156-158) ----

\* The host is at its call of RunWithClose: a SignalToClose call made now
\* runs concurrently with lines 87-93.
StartRacing ==
    \/ mode = "Execute" /\ execPc = "runWithClose"
    \/ mode = "RunWithClose" /\ execPc = "start"

\* line 157: *j.sig is read; dereferencing a nil pointer panics.
\* The read is not synchronised with the writes of lines 87 and 91 (a data
\* race).  A call that runs concurrently with RunWithClose either still reads
\* a nil j.sig and panics, or reads the new j.sig before the channel stored at
\* line 87 is visible through it and then waits for ever in a send on a nil
\* channel ("stuck"), or reads both (that is the ELSE branch, taken once the
\* RunWithClose step is over).
SignalToCloseCall(p) ==
    /\ alive /\ manPc[p] = "idle"
    /\ IF j.sig = "nil"
          THEN \/ /\ alive' = FALSE
                  /\ manPc' = [manPc EXCEPT ![p] = "panicked"]
               \/ /\ StartRacing
                  /\ manPc' = [manPc EXCEPT ![p] = "stuck"]
                  /\ UNCHANGED alive
          ELSE /\ manPc' = [manPc EXCEPT ![p] = "sending"]
               /\ UNCHANGED alive
    /\ UNCHANGED <<mode, j, j0, chans, notified, execPc, execRet, supPc, runPc, hist>>

\* SignalToCloseSend that returns without sending.
SignalToCloseSend_NoSend(p) ==
    /\ alive /\ manPc[p] = "sending"
    /\ manPc' = [manPc EXCEPT ![p] = "done"]
    /\ UNCHANGED <<mode, j, j0, chans, notified, execPc, execRet, supPc, runPc,
                   alive, hist>>

\* line 157: ... <- 1   (a plain send: waits while the buffer is full)
SignalToCloseSend(p) ==
    /\ alive /\ manPc[p] = "sending"
    /\ ~Full(sig)
    /\ sig' = Append(sig, 1)
    /\ sigWrites' = sigWrites + 1
    /\ manPc' = [manPc EXCEPT ![p] = "done"]
    /\ UNCHANGED <<mode, j, j0, ack, err, closeChan, notified, execPc, execRet,
                   supPc, runPc, alive, osCount, osSent, closeCount, closeRet, runRet,
                   ackCount, errWrites>>

\* ---- the operating system ----

\* A signal reaches the process while Execute is the host.  A signal
\* registered by signal.Notify (line 130) is put on closeChan unless the
\* buffer is full (Notify never blocks); any other signal of OSSignals takes
\* its default action and ends the process.
OSSignal(s) ==
    /\ alive /\ mode = "Execute" /\ osCount < MaxSignals
    /\ osCount' = osCount + 1
    /\ osSent' = osSent \cup {s}
    /\ IF s \in notified
          THEN /\ closeChan' = IF Full(closeChan) THEN closeChan ELSE Append(closeChan, s)
               /\ UNCHANGED alive
          ELSE /\ alive' = FALSE
               /\ UNCHANGED closeChan
    /\ UNCHANGED <<mode, j, j0, sig, ack, err, notified, execPc, execRet, supPc,
                   runPc, manPc, closeCount, closeRet, runRet, ackCount,
                   sigWrites, errWrites>>

\* ------------------------------------------------------------------------
Supervisor ==
    \/ SupSpawnRun
    \/ SupRecvSig
    \/ SupCallClose
    \/ SupCloseReturn
    \/ SupSendErr
    \/ SupSendAck

RunTask ==
    \/ RunInvoke
    \/ RunReturn
    \/ RunSendErr

Execute ==
    \/ ExecCheck
    \/ ExecRunWithClose
    \/ ExecNotify
    \/ ExecSelectClose
    \/ ExecSendSig
    \/ ExecSelectAck
    \/ ExecSelectErr

Next ==
    \/ SupSpawnRun
    \/ SupRecvSig
    \/ SupCallClose
    \/ SupCloseReturn
    \/ SupSendErr
    \/ SupSendAck
    \/ RunInvoke
    \/ RunReturn
    \/ RunSendErr
    \/ ExecCheck
    \/ ExecRunWithClose
    \/ ExecNotify
    \/ ExecSelectClose
    \/ ExecSendSig
    \/ ExecSelectAck
    \/ ExecSelectErr
    \/ CallerRunWithClose
    \/ CallerSendSig
    \/ CallerRecvAck
    \/ CallerRecvErr
    \/ \E p \in Manuals : SignalToCloseCall(p)
    \/ \E p \in Manuals : SignalToCloseSend(p)
    \/ \E s \in OSSignals : OSSignal(s)

Spec == Init /\ [][Next]_vars

\* The Go scheduler runs every runnable goroutine: each step of the
\* supervising goroutine, of the run goroutine, of Execute and of a
\* SignalToClose call that has started is taken once it stays possible.
\* The host that uses the returned handles, new SignalToClose calls and the
\* operating system are the environment and owe nothing.
FairSpec ==
    /\ Spec
    /\ WF_vars(Supervisor)
    /\ WF_vars(RunTask)
    /\ WF_vars(Execute)
    /\ \A p \in Manuals : WF_vars(SignalToCloseSend(p))

TypeOK ==
    /\ mode \in Modes
    /\ Len(sig) <= Cap /\ Len(ack) <= Cap /\ Len(err) <= Cap /\ Len(closeChan) <= Cap
    /\ execRet \in {"none", NIL, ErrConfig, RunErr, CloseErr}
    /\ osCount <= MaxSignals


\* ------------------------------------------------------------------------
\* Properties
\* ------------------------------------------------------------------------
ValidJob == j0.Run # "unset" /\ j0.Close # "unset"
RunNoFailure == j0.Run \in {"nil", "block"}
ManualCalls == Cardinality({p \in Manuals : manPc[p] # "idle"})
NoTrigger == osCount = 0 /\ ManualCalls = 0
Returned == execPc = "returned"

\* C1: for a Job whose Run or Close is unset, Execute returns the
\* configuration error in its first step and starts nothing: the handles are
\* never recorded, no channel holds anything, no goroutine is spawned, Run
\* and Close are never invoked, nothing is registered with signal.Notify and
\* the Job's fields keep the values they were constructed with.
C1_ConfigErrorStartsNothing ==
    (mode = "Execute" /\ ~ValidJob) =>
        /\ execPc \in {"start", "returned"}
        /\ (Returned => execRet = ErrConfig)
        /\ j = j0
        /\ sig = << >> /\ ack = << >> /\ err = << >> /\ closeChan = << >>
        /\ notified = {}
        /\ supPc = "none" /\ runPc = "none"
        /\ runRet = "none" /\ closeCount = 0 /\ closeRet = "none"
        /\ sigWrites = 0 /\ ackCount = 0

C1_Witness ==
    /\ mode = "Execute" /\ j0.Run = "nil" /\ j0.Close = "unset"
    /\ Returned /\ execRet = ErrConfig

\* C2 (as claimed): for a valid Job whose Run returns no failure and whose
\* Close, triggered by a registered OS signal, returns a failure, Execute
\* returns that failure and never nil.
C2_CloseFailureReturned ==
    (/\ mode = "Execute" /\ RunNoFailure /\ j0.Close = "fail"
     /\ ManualCalls = 0 /\ osCount > 0 /\ closeRet = CloseErr /\ Returned)
        => execRet = CloseErr

\* C3: for a valid Job whose Run returns a failure, as long as no OS signal
\* is delivered and no SignalToClose call is made, Execute eventually
\* returns exactly the failure Run returned.
C3_RunFailureReturned ==
    (mode = "Execute" /\ j0.Run = "fail" /\ j0.Close # "unset" /\ NoTrigger)
        ~> ((Returned /\ execRet = RunErr /\ execRet = runRet) \/ ~NoTrigger)

C3_Witness ==
    /\ mode = "Execute" /\ j0.Run = "fail" /\ NoTrigger
    /\ Returned /\ execRet = RunErr /\ closeCount = 0

\* C4: for a valid Job whose Run returns nil or blocks and whose Close
\* returns nil, once one registered OS signal has been delivered during
\* Execute (and it is the only shutdown trigger of the lifecycle), Execute
\* eventually returns nil, Close having been invoked exactly once.
C4_SignalThenNil ==
    (/\ mode = "Execute" /\ RunNoFailure /\ j0.Close = "nil"
     /\ osCount = 1 /\ alive /\ ManualCalls = 0)
        ~> \/ Returned /\ execRet = NIL /\ closeCount = 1 /\ closeRet = NIL
           \/ osCount > 1
           \/ ManualCalls > 0

C4_Witness ==
    /\ mode = "Execute" /\ j0.Run = "block" /\ j0.Close = "nil"
    /\ osCount = 1 /\ ManualCalls = 0
    /\ Returned /\ execRet = NIL /\ closeCount = 1

\* C5: one SignalToClose call made after the Job was started, with no OS
\* signal delivered, leads to exactly one invocation of Close, one
\* acknowledgement and Execute returning nil, when Run and Close return no
\* failure.
C5_ManualThenNil ==
    (/\ mode = "Execute" /\ RunNoFailure /\ j0.Close = "nil"
     /\ osCount = 0 /\ ManualCalls = 1 /\ alive
     /\ \E p \in Manuals : manPc[p] \in {"sending", "done"})
        ~> \/ Returned /\ execRet = NIL /\ closeCount = 1 /\ ackCount = 1
           \/ osCount > 0
           \/ ManualCalls > 1

C5_Witness ==
    /\ mode = "Execute" /\ j0.Run = "nil" /\ j0.Close = "nil"
    /\ osCount = 0 /\ ManualCalls = 1 /\ \E p \in Manuals : manPc[p] = "done"
    /\ Returned /\ execRet = NIL /\ closeCount = 1 /\ ackCount = 1

\* C6: Close is invoked at most once per call of RunWithClose, whatever OS
\* signals and SignalToClose calls race.
C6_CloseAtMostOnce == closeCount <= 1

C6_Witness ==
    /\ closeCount = 1 /\ sigWrites = 2
    /\ osCount > 0 /\ ManualCalls > 0 /\ supPc = "done"

\* C7 (as claimed): when Run's failure has been sent on the error channel and
\* a shutdown trigger also occurs with Close returning no failure, Execute
\* returns the Run failure and not nil.
C7_RunFailureNeverNil ==
    (/\ mode = "Execute" /\ j0.Run = "fail" /\ j0.Close = "nil"
     /\ errWrites.run = 1 /\ Returned)
        => execRet = RunErr

\* C8 (as claimed): for a caller of RunWithClose, once a signal-request has
\* been sent and Close has returned, the supervising goroutine eventually
\* sends one acknowledgement and terminates, whatever Run returned and
\* whether or not the caller reads the error channel.
C8_AckAfterClose ==
    (mode = "RunWithClose" /\ ValidJob /\ sigWrites > 0 /\ closeRet # "none")
        ~> (ackCount = 1 /\ supPc = "done")

\* C9: every send on the acknowledgement channel is the supervising
\* goroutine's step at line 105, taken after its Close invocation has
\* returned, and it is the first and only one of the lifecycle.
C9_AckOnlyAfterClose ==
    [][(ackCount' # ackCount \/ Len(ack') > Len(ack)) =>
          /\ supPc = "sendAck" /\ supPc' = "done"
          /\ closeCount = 1 /\ closeRet # "none"
          /\ ackCount = 0 /\ ackCount' = 1]_vars

C9_Witness ==
    /\ ackCount = 1 /\ closeRet = CloseErr /\ supPc = "done" /\ Len(ack) = 1

\* C10: whenever Close has been invoked, a signal-request had been written to
\* the signal-request channel and the supervising goroutine had received it.
C10_CloseOnlyAfterRequest ==
    closeCount > 0 =>
        /\ sigWrites > 0
        /\ sigWrites > Len(sig)
        /\ supPc \notin {"none", "spawn", "recvSig"}

C10_Witness ==
    /\ closeCount = 1 /\ supPc = "inClose" /\ sigWrites = 1 /\ sig = << >>

\* C11 (as claimed): Run has been invoked before the supervising goroutine
\* receives a signal-request, so Close is never invoked while Run has not
\* yet been invoked.
C11_RunInvokedBeforeClose ==
    /\ supPc \in {"callClose", "inClose", "sendErr", "sendAck", "done"}
          => runPc \in {"inRun", "sendErr", "done"}
    /\ closeCount > 0 => runPc \in {"inRun", "sendErr", "done"}

\* C11 (amended): the run goroutine has been started (the go statement of
\* line 96 has been executed) before the supervising goroutine waits for or
\* receives a signal-request, so Close is never invoked before the run
\* goroutine exists; Run itself may not have been invoked yet.
C11_RunSpawnedBeforeClose ==
    /\ supPc \in {"recvSig", "callClose", "inClose", "sendErr", "sendAck", "done"}
          => runPc # "none"
    /\ closeCount > 0 => runPc # "none"

C11_Witness ==
    /\ closeCount = 1 /\ closeRet = NIL /\ runPc = "spawned" /\ runRet = "none"

Registered == IF j0.Signals = {} THEN DefaultSignals ELSE j0.Signals

\* C12: the set registered by Execute is {SIGINT, SIGTERM} when Signals is
\* empty and the caller's Signals otherwise; only registered signals reach
\* closeChan, and as long as no registered signal has been sent (and no
\* SignalToClose call made) no signal-request is written and Close is not
\* invoked, whatever other signals were sent.
C12_OnlyRegisteredSignals ==
    mode = "Execute" =>
        /\ notified \in {{}, Registered}
        /\ execPc \in {"select", "sendSig"} => notified = Registered /\ j.Signals = Registered
        /\ \A i \in 1..Len(closeChan) : closeChan[i] \in Registered
        /\ (osSent \cap Registered = {} /\ ManualCalls = 0) =>
              /\ closeChan = << >> /\ execPc # "sendSig"
              /\ sig = << >> /\ sigWrites = 0 /\ closeCount = 0

C12_Witness ==
    /\ mode = "Execute" /\ j0.Signals = {} /\ notified = {SIGINT, SIGTERM}
    /\ osSent = {SIGHUP} /\ ManualCalls = 0
    /\ sigWrites = 0 /\ closeCount = 0

\* C13 (as claimed): no writer of the signal-request channel blocks for
\* ever: every send on sig started by Execute's control loop or by a
\* SignalToClose call eventually completes, and once an acknowledgement is
\* available Execute eventually returns (unless the process dies first).
C13_SigSendCompletes ==
    /\ (alive /\ execPc = "sendSig") ~> (execPc # "sendSig" \/ ~alive)
    /\ \A p \in Manuals :
          (alive /\ manPc[p] = "sending") ~> (manPc[p] = "done" \/ ~alive)
    /\ (alive /\ mode = "Execute" /\ Len(ack) > 0) ~> (Returned \/ ~alive)

\* C14 (as claimed): at most one signal-request is ever written to the
\* signal-request channel in one lifecycle.
C14_SigWriteOnce == sigWrites <= 1

\* C14 (amended): at most one signal-request is ever received from the
\* signal-request channel in one lifecycle, and at most two sends on it
\* complete: the one that is received and one more that stays in the buffer.
C14_SigWritesBounded ==
    /\ sigWrites - Len(sig) \in {0, 1}
    /\ sigWrites <= Cap + 1
    /\ sigWrites - Len(sig) = 1 <=> supPc \in {"callClose", "inClose", "sendErr", "sendAck", "done"}

C14_Witness ==
    /\ sigWrites = 2 /\ Len(sig) = 1 /\ closeCount = 1 /\ ackCount = 1
    /\ \A p \in Manuals : manPc[p] \in {"idle", "done"}

\* C15 (as claimed): neither the run goroutine nor the supervising goroutine
\* ever stays blocked on the error channel; a failure that finds the channel
\* full is dropped and the sender goes on.
C15_ErrSendNeverBlocks ==
    /\ (alive /\ supPc = "sendErr") ~> (supPc # "sendErr" \/ ~alive)
    /\ (alive /\ runPc = "sendErr") ~> (runPc # "sendErr" \/ ~alive)

\* C16: in one lifecycle the run goroutine sends on err at most once and
\* only the failure Run returned, the supervising goroutine sends on err at
\* most once and only the failure Close returned, nothing is sent for an
\* operation that returned nil, and err never holds more than one message.
C16_ErrAtMostTwo ==
    /\ errWrites.run \in {0, 1} /\ errWrites.sup \in {0, 1}
    /\ errWrites.run = 1 => runRet = RunErr /\ runPc = "done"
    /\ errWrites.sup = 1 => closeRet = CloseErr /\ supPc \in {"sendAck", "done"}
    /\ runRet = NIL => errWrites.run = 0
    /\ closeRet = NIL => errWrites.sup = 0
    /\ Len(err) <= 1 /\ Len(err) <= errWrites.run + errWrites.sup
    /\ \A i \in 1..Len(err) : err[i] \in {RunErr, CloseErr}

C16_Witness ==
    /\ errWrites.run = 1 /\ errWrites.sup = 1 /\ Len(err) = 1

\* C17: a step of Execute's loop that takes an error from err returns that
\* error in the same step, without touching ack; and when Execute has
\* returned while no signal-request was ever written, it returned Run's
\* failure, Close has not been invoked, no acknowledgement has been sent and
\* the supervising goroutine is still waiting at <-sig.
C17_ErrorShortCircuits ==
    /\ [](( mode = "Execute" /\ ValidJob /\ Returned /\ sigWrites = 0) =>
             /\ execRet = RunErr /\ runRet = RunErr
             /\ closeCount = 0 /\ ackCount = 0 /\ ack = << >>
             /\ supPc = "recvSig")
    /\ [][(mode = "Execute" /\ Len(err') < Len(err)) =>
             /\ execPc = "select" /\ execPc' = "returned"
             /\ execRet' = Head(err)
             /\ ack' = ack /\ ackCount' = ackCount]_vars

C17_Witness ==
    /\ mode = "Execute" /\ Returned /\ execRet = RunErr /\ sigWrites = 0
    /\ closeCount = 0 /\ ackCount = 0 /\ supPc = "recvSig" /\ alive

\* C18: when Execute has returned, its result is the configuration error (of
\* an invalid Job), or the failure Run returned, or the failure Close
\* returned, or nil after the acknowledgement of a Close that was invoked and
\* has returned was received.
C18_ResultOrigin ==
    (mode = "Execute" /\ Returned) =>
        \/ execRet = ErrConfig /\ ~ValidJob
        \/ execRet = RunErr /\ runRet = RunErr /\ errWrites.run = 1 /\ ValidJob
        \/ execRet = CloseErr /\ closeRet = CloseErr /\ errWrites.sup = 1 /\ ValidJob
        \/ /\ execRet = NIL /\ ValidJob
           /\ ackCount = 1 /\ ack = << >>
           /\ closeCount = 1 /\ closeRet # "none" /\ supPc = "done"

C18_Witness ==
    /\ mode = "Execute" /\ Returned /\ execRet = CloseErr
    /\ runRet = RunErr /\ closeRet = CloseErr

\* C19 (as claimed): a SignalToClose call acts only on a started Job.  While
\* the handle is not recorded no call gets as far as sending, no
\* signal-request is written and Close is not invoked; a call that finds the
\* handle unset panics and ends the process; the call itself writes nothing
\* when it reads the handle; a call made after start writes exactly one
\* signal-request on the Job's channel: its send completes, adding one message.
C19_SignalToCloseOnStartedJob ==
    /\ [](j.sig = "nil" =>
             /\ sigWrites = 0 /\ closeCount = 0
             /\ \A p \in Manuals : manPc[p] \notin {"sending", "done"})
    /\ [](\A p \in Manuals : manPc[p] = "panicked" => ~alive)
    /\ [][\A p \in Manuals : (manPc[p] = "idle" /\ manPc'[p] # "idle") =>
             /\ UNCHANGED <<sig, sigWrites, closeCount>>
             /\ j.sig = "nil" => manPc'[p] \in {"panicked", "stuck"}
             /\ j.sig # "nil" => manPc'[p] = "sending"]_vars
    /\ [][\A p \in Manuals : (manPc[p] = "sending" /\ manPc'[p] # "sending") =>
             /\ manPc'[p] = "done"
             /\ sig' = Append(sig, 1) /\ sigWrites' = sigWrites + 1]_vars
    /\ \A p \in Manuals :
          (alive /\ manPc[p] = "sending") ~> (manPc[p] = "done" \/ ~alive)

====
